---- MODULE Spec2Model ----
(***************************************************************************)
(* Model of common-operating-picture/seed_data.py (the seeder) and         *)
(* common-operating-picture/read_s4.py (the reader): identity-token         *)
(* acquisition, token-for-credential exchange, and gated get/put against   *)
(* the S4 proxy.  Strings are sequences of one-character strings; JSON     *)
(* text is a sequence of tokens.                                           *)
(***************************************************************************)
EXTENDS Naturals, Integers, Sequences, FiniteSets, TLC

\* ------------------------------------------------------------------ bounds

\* Number of records the seeder generates (count; NUM_RECORDS in the source).
MaxCount == 2
\* Longest "rest" (text after the candidate scheme prefix) of a parsed URI.
MaxRest == 4
\* Longest attribute list handed to upload_to_s4 in the metadata unit check.
MaxTags == 4

\* --------------------------------------------------------------- constants

\* DurationSeconds of the STS exchange.
DurationSeconds == 3600
\* limit=10 of query_tdf_objects.
QueryLimit == 10

S4_BUCKET == <<"c", "o", "p", "-", "d", "e", "m", "o">>

S3_SCHEME == <<"s", "3", ":", "/", "/">>

\* The two attributes the seeder attaches to every manifest
\* (classification/topsecret and NEEDTOKNOW_ATTR).
manifest_attributes == <<"topsecret", "bbb">>

\* ------------------------------------------------------------ python values

\* An optional string: None, or a string (possibly empty).
None == [none |-> TRUE, s |-> <<>>]

Some(s) == [none |-> FALSE, s |-> s]

\* Python truthiness of an optional string: None and "" are falsy.
Truthy(o) == ~o.none /\ o.s # <<>>

\* Values fetch_manifest_from_s4 can return: None, a parsed dict (a sequence
\* of <<key, value>> pairs in insertion order), a parsed scalar, or raw text.
PyNone == [t |-> "none", d |-> <<>>, s |-> <<>>]

PyDict(d) == [t |-> "dict", d |-> d, s |-> <<>>]

PyScalar(tok) == [t |-> "scalar", d |-> <<>>, s |-> <<tok>>]

PyStr(s) == [t |-> "str", d |-> <<>>, s |-> s]

\* Python truthiness of a returned value (the caller's `if manifest_data:`).
PyTruthy(v) ==
    CASE v.t = "none" -> FALSE
      [] v.t = "dict" -> v.d # <<>>
      [] v.t = "str" -> v.s # <<>>
      [] OTHER -> v.s \notin {<<"0">>, <<"null">>, <<"false">>}

\* ------------------------------------------------------------------ strings

StartsWith(s, p) == Len(s) >= Len(p) /\ SubSeq(s, 1, Len(p)) = p

\* Index of the first "/" of s, 0 when there is none.
FirstSlash(s) ==
    IF \E i \in 1..Len(s) : s[i] = "/"
    THEN CHOOSE i \in 1..Len(s) : s[i] = "/" /\ \A j \in 1..(i - 1) : s[j] # "/"
    ELSE 0

\* path.split('/', 1): one part when there is no "/", else two.
Split1(path) ==
    LET p == FirstSlash(path)
    IN IF p = 0 THEN <<path>>
       ELSE <<SubSeq(path, 1, p - 1), SubSeq(path, p + 1, Len(path))>>

\* path.split('/', 1) written without the maxsplit, keeping parts 0 and 1.
Split1_all(path) ==
    LET p == FirstSlash(path)
        rest == SubSeq(path, p + 1, Len(path))
        q == FirstSlash(rest)
    IN IF p = 0 THEN <<path>>
       ELSE <<SubSeq(path, 1, p - 1),
              IF q = 0 THEN rest ELSE SubSeq(rest, 1, q - 1)>>

\* parse_s3_uri with a split at every "/".
parse_s3_uri_splitall(s3_uri) ==
    IF ~Truthy(s3_uri) \/ ~StartsWith(s3_uri.s, S3_SCHEME)
    THEN <<None, None>>
    ELSE LET path == SubSeq(s3_uri.s, Len(S3_SCHEME) + 1, Len(s3_uri.s))
             parts == Split1_all(path)
         IN IF Len(parts) = 2 THEN <<Some(parts[1]), Some(parts[2])>>
            ELSE <<Some(parts[1]), None>>

\* parse_s3_uri: <<bucket, key>>, each an optional string.
parse_s3_uri(s3_uri) ==
    IF ~Truthy(s3_uri) \/ ~StartsWith(s3_uri.s, S3_SCHEME)
    THEN <<None, None>>
    ELSE LET path == SubSeq(s3_uri.s, Len(S3_SCHEME) + 1, Len(s3_uri.s))
             parts == Split1(path)
         IN IF Len(parts) = 2 THEN <<Some(parts[1]), Some(parts[2])>>
            ELSE <<Some(parts[1]), None>>

\* The guard of fetch_manifest_from_s4: `if not bucket or not key` rejects.
FetchValid(s3_uri) ==
    LET bk == parse_s3_uri(s3_uri)
    IN Truthy(bk[1]) /\ Truthy(bk[2])

\* The reference built from the filename alone, without the bucket.
ObjectUri_bucketless(filename) == S3_SCHEME \o filename

\* f"s3://{S4_BUCKET}/{filename}"
ObjectUri(filename) == S3_SCHEME \o S4_BUCKET \o <<"/">> \o filename

\* f"manifests/{random_id}.json.tdf"
ManifestKey(id) ==
    <<"m", "a", "n", "i", "f", "e", "s", "t", "s", "/">> \o <<id>>
        \o <<".", "j", "s", "o", "n", ".", "t", "d", "f">>

\* --------------------------------------------------------------------- JSON

\* Keys and string values of the documents (manifests) the seeder uploads.
Atoms == {"a", "b"}

\* The JSON string literal of an atom.
Quote(x) == IF x = "a" THEN "\"a\"" ELSE "\"b\""

IsQuoted(tok) == tok \in {Quote(x) : x \in Atoms}

Unquote(tok) == CHOOSE x \in Atoms : Quote(x) = tok

\* The documents: a dict is a sequence of <<key, value>> pairs with distinct
\* keys, in insertion order.  The empty dict is among them.
Docs == {<<>>, <<<<"a", "a">>, <<"b", "a">>>>}

RECURSIVE DumpPairs(_)
DumpPairs(d) ==
    IF d = <<>> THEN <<>>
    ELSE <<Quote(d[1][1]), ":", Quote(d[1][2])>>
             \o (IF Len(d) > 1 THEN <<",">> \o DumpPairs(Tail(d)) ELSE <<>>)

\* json.dumps(data_dict), as tokens.
Dumps(d) == <<"{">> \o DumpPairs(d) \o <<"}">>

\* d[k] = v on a dict: the value is replaced in place, or the pair appended.
DictSet(d, k, v) ==
    IF \E i \in 1..Len(d) : d[i][1] = k
    THEN [i \in 1..Len(d) |-> IF d[i][1] = k THEN <<k, v>> ELSE d[i]]
    ELSE Append(d, <<k, v>>)

\* The members of an object, given the tokens between its braces.
RECURSIVE ParsePairs(_, _)
ParsePairs(toks, acc) ==
    IF Len(toks) < 3 \/ ~IsQuoted(toks[1]) \/ toks[2] # ":" \/ ~IsQuoted(toks[3])
    THEN [ok |-> FALSE, d |-> <<>>]
    ELSE LET acc2 == DictSet(acc, Unquote(toks[1]), Unquote(toks[3]))
         IN IF Len(toks) = 3 THEN [ok |-> TRUE, d |-> acc2]
            ELSE IF toks[4] # "," THEN [ok |-> FALSE, d |-> <<>>]
            ELSE ParsePairs(SubSeq(toks, 5, Len(toks)), acc2)

\* json.loads(plaintext): ok is FALSE for a JSONDecodeError.
Loads(text) ==
    IF Len(text) = 1 /\ text[1] = "null" THEN [ok |-> TRUE, v |-> PyNone]
    ELSE IF Len(text) = 1 /\ text[1] \in {"0", "1"}
    THEN [ok |-> TRUE, v |-> PyScalar(text[1])]
    ELSE IF Len(text) = 1 /\ IsQuoted(text[1])
    THEN [ok |-> TRUE, v |-> PyStr(<<Unquote(text[1])>>)]
    ELSE IF Len(text) >= 2 /\ text[1] = "{" /\ text[Len(text)] = "}"
    THEN IF Len(text) = 2 THEN [ok |-> TRUE, v |-> PyDict(<<>>)]
         ELSE LET r == ParsePairs(SubSeq(text, 2, Len(text) - 1), <<>>)
              IN [ok |-> r.ok, v |-> PyDict(r.d)]
    ELSE [ok |-> FALSE, v |-> PyNone]

\* ----------------------------------------------------------------- metadata

\* The key written without its index.
MetaKey_noindex(i) == <<"tdf-data-attribute-", 0>>

\* f'tdf-data-attribute-{i}'
MetaKey(i) == <<"tdf-data-attribute-", i>>

EmptyMeta == [k \in {} |-> ""]

\* metadata[k] = v
MetaSet(m, k, v) == [x \in DOMAIN m \cup {k} |-> IF x = k THEN v ELSE m[x]]

\* The loop of upload_to_s4 over enumerate(attributes), from position i on.
RECURSIVE MetaFrom(_, _, _)
MetaFrom(attributes, i, m) ==
    IF i > Len(attributes) THEN m
    ELSE MetaFrom(attributes, i + 1, MetaSet(m, MetaKey(i - 1), attributes[i]))

\* The Metadata argument upload_to_s4 passes to put_object.
PutMetadata(attributes) == MetaFrom(attributes, 1, EmptyMeta)

\* The attribute tags the proxy reads back from an object's metadata.
ObjectTags(meta) == {meta[k] : k \in DOMAIN meta}

\* -------------------------------------------------------------------- state

VARIABLES
    now,          \* the clock, in seconds
    passwordOK,   \* whether KC_PASS is the password of KC_USER at the provider
    kcAttrs,      \* the attributes the provider asserts for the reader's KC_USER
    store,        \* the S4 bucket: object key -> [body, meta]
    written,      \* for each key put by upload_to_s4, the data_dict last written
    db,           \* rows of tdf_objects in insertion order: [manifest]
    spc,          \* seeder: position in insert_seed_data / generate_tdf_records
    stoken,       \* seeder: token returned by get_auth_token
    screds,       \* seeder: credentials held by its S3 client
    srecords,     \* seeder: records generated so far
    sfail,        \* seeder: the step that failed to initialise the client
    swire,        \* seeder: every request it dispatched, with the answer's code
    rpc,          \* reader: position in read_manifests_from_db
    rtoken,       \* reader: token returned by get_jwt
    rcreds,       \* reader: credentials held by its S3 client
    records,      \* reader: rows returned by query_tdf_objects
    ridx,         \* reader: index of the next record of the loop
    rout,         \* reader: what fetch_manifest_from_s4 returned, per record
    rfail,        \* reader: the step that failed to initialise the client
    rwire,        \* reader: every request it dispatched, with the answer's code
    u_uri,        \* unit check of parse_s3_uri: the input
    u_res,        \* unit check of parse_s3_uri: what came out
    m_attrs,      \* unit check of the put metadata: the attribute list
    m_res,        \* unit check of the put metadata: what came out
    p_path,       \* unit check of upload_to_s4: the filename argument
    p_res         \* unit check of upload_to_s4: what came out

mainVars ==
    <<now, passwordOK, kcAttrs, store, written, db, spc, stoken, screds,
      srecords, sfail, swire, rpc, rtoken, rcreds, records, ridx, rout, rfail,
      rwire>>

unitVars == <<u_uri, u_res, m_attrs, m_res, p_path, p_res>>

vars == <<mainVars, unitVars>>

NoToken == "<none>"

NoCreds == [held |-> FALSE, expiry |-> 0]

Creds(e) == [held |-> TRUE, expiry |-> e]

\* Credentials whose declared expiry has been reached.
Stale(creds) == now >= creds.expiry

\* A script is running between its first request and its return.
Running(pc) == pc \notin {"start", "closed", "crashed"}

\* The session states of the design, read off a script's position.
SessionState(pc) ==
    CASE pc = "start" -> "Unauthenticated"
      [] pc = "exchange" -> "Authenticating"
      [] pc \in {"closed", "crashed"} -> "Closed"
      [] OTHER -> "Active"

Request(op, bucket, key, token, stale, status, code) ==
    [op |-> op, bucket |-> bucket, key |-> key, token |-> token,
     stale |-> stale, status |-> status, code |-> code]

Ops(w) == [i \in 1..Len(w) |-> w[i].op]

Count(w, op) == Cardinality({i \in 1..Len(w) : w[i].op = op})

\* -------------------------------------------------------------- environment

\* The identity provider's answers to a password grant.  Status 0 stands for
\* a request that got no answer (requests raises ConnectionError).
IdpResponses ==
    IF passwordOK
    THEN {[status |-> 200, token |-> "jwt"], [status |-> 503, token |-> NoToken],
          [status |-> 0, token |-> NoToken]}
    ELSE {[status |-> 401, token |-> NoToken], [status |-> 0, token |-> NoToken]}

\* The proxy's STS answers to assume_role_with_web_identity.
StsResponses(token) ==
    (IF token = "jwt"
     THEN {[kind |-> "ok", code |-> "200", creds |-> Creds(now + DurationSeconds)]}
     ELSE {})
    \cup {[kind |-> "client_error", code |-> "AccessDenied", creds |-> NoCreds],
          [kind |-> "conn_error", code |-> "", creds |-> NoCreds]}

\* An answer of the S3 client: "ok" (HTTP 200), "client_error" (botocore's
\* ClientError, carrying the service's error code), or "conn_error" (no
\* answer: botocore's EndpointConnectionError, which is no ClientError).
S3Answer(kind, code, body) == [kind |-> kind, code |-> code, body |-> body]

\* What the proxy answers to get_object when it is reachable and healthy.
ProxyGet(stale, bucket, key, attrs) ==
    IF stale THEN S3Answer("client_error", "ExpiredToken", <<>>)
    ELSE IF bucket # S4_BUCKET THEN S3Answer("client_error", "NoSuchBucket", <<>>)
    ELSE IF key \notin DOMAIN store THEN S3Answer("client_error", "NoSuchKey", <<>>)
    ELSE IF ~(ObjectTags(store[key].meta) \subseteq attrs)
    THEN S3Answer("client_error", "AccessDenied", <<>>)
    ELSE S3Answer("ok", "200", store[key].body)

\* Every answer get_object can give: the proxy's, a 5xx, or none at all.
S3GetResponses(stale, bucket, key, attrs) ==
    {ProxyGet(stale, bucket, key, attrs),
     S3Answer("client_error", "InternalError", <<>>),
     S3Answer("conn_error", "", <<>>)}

\* The answers put_object can give: the proxy's, or none at all.  (Every
\* failure of the put is an exception the caller catches alike.)
S3PutResponses(stale) ==
    {IF stale THEN S3Answer("client_error", "ExpiredToken", <<>>)
     ELSE S3Answer("ok", "200", <<>>),
     S3Answer("conn_error", "", <<>>)}

\* ----------------------------------------------------------- token acquirer

\* get_jwt that reads the token leniently instead of raising on an error
\* status: an error answer gives the empty token.
get_jwt_lenient(resp) ==
    IF resp.status = 0 THEN [ok |-> FALSE, token |-> NoToken]
    ELSE [ok |-> TRUE, token |-> IF resp.status = 200 THEN resp.token ELSE ""]

\* get_jwt on the answer of its one requests.post: raise_for_status raises for
\* 400..599, and ["access_token"] raises when the body has no token.
get_jwt(resp) ==
    IF resp.status = 0 \/ (resp.status >= 400 /\ resp.status < 600)
       \/ resp.token = NoToken
    THEN [ok |-> FALSE, token |-> NoToken]
    ELSE [ok |-> TRUE, token |-> resp.token]

\* get_auth_token: the same request; an answer other than 200 is printed and
\* raise_for_status raises for 400..599.
get_auth_token(resp) ==
    IF resp.status = 0
       \/ (resp.status # 200 /\ resp.status >= 400 /\ resp.status < 600)
       \/ resp.token = NoToken
    THEN [ok |-> FALSE, token |-> NoToken]
    ELSE [ok |-> TRUE, token |-> resp.token]

\* ------------------------------------------------------------------- reader

\* read_manifests_from_db whose except branch logs and falls through.
ReaderAfterFailure_noreturn == "query"

\* Where read_manifests_from_db goes when get_s4_client raised: it returns.
ReaderAfterFailure == "closed"

\* fetch_manifest_from_s4 without the except ClientError branch.
FetchResult_uncaught(resp) ==
    IF resp.kind = "ok"
    THEN LET r == Loads(resp.body)
         IN [raised |-> FALSE, value |-> IF r.ok THEN r.v ELSE PyStr(resp.body)]
    ELSE [raised |-> TRUE, value |-> PyNone]

\* fetch_manifest_from_s4 returning the text without json.loads.
FetchResult_raw(resp) ==
    IF resp.kind = "ok" THEN [raised |-> FALSE, value |-> PyStr(resp.body)]
    ELSE IF resp.kind = "client_error" THEN [raised |-> FALSE, value |-> PyNone]
    ELSE [raised |-> TRUE, value |-> PyNone]

\* fetch_manifest_from_s4 returning the error code of a ClientError.
FetchResult_code(resp) ==
    IF resp.kind = "ok"
    THEN LET r == Loads(resp.body)
         IN [raised |-> FALSE, value |-> IF r.ok THEN r.v ELSE PyStr(resp.body)]
    ELSE IF resp.kind = "client_error"
    THEN [raised |-> FALSE, value |-> PyStr(<<resp.code>>)]
    ELSE [raised |-> TRUE, value |-> PyNone]

\* fetch_manifest_from_s4 once get_object has answered: the body parsed as
\* JSON, else the text; None for a ClientError; any other exception leaves
\* the function.
FetchResult(resp) ==
    IF resp.kind = "ok"
    THEN LET r == Loads(resp.body)
         IN [raised |-> FALSE, value |-> IF r.ok THEN r.v ELSE PyStr(resp.body)]
    ELSE IF resp.kind = "client_error" THEN [raised |-> FALSE, value |-> PyNone]
    ELSE [raised |-> TRUE, value |-> PyNone]

\* ORDER BY ts DESC
RECURSIVE Reverse(_)
Reverse(q) == IF q = <<>> THEN <<>> ELSE Append(Reverse(Tail(q)), q[1])

\* WHERE metadata->>'manifest' IS NOT NULL
RECURSIVE NotNull(_)
NotNull(q) ==
    IF q = <<>> THEN <<>>
    ELSE (IF q[1].manifest.none THEN <<>> ELSE <<q[1]>>) \o NotNull(Tail(q))

\* The rows the query of query_tdf_objects selects.
QueryRows(rows) ==
    LET sel == Reverse(NotNull(rows))
    IN SubSeq(sel, 1, IF Len(sel) < QueryLimit THEN Len(sel) ELSE QueryLimit)

\* One entry of rout: what the loop saw for one record.
Outcome(uri, sent, kind, code, value) ==
    [uri |-> uri, sent |-> sent, kind |-> kind, code |-> code, value |-> value,
     shown |-> PyTruthy(value)]

HttpStatus(resp) ==
    CASE resp.kind = "ok" -> 200
      [] resp.kind = "conn_error" -> 0
      [] resp.code = "AccessDenied" -> 403
      [] resp.code \in {"NoSuchKey", "NoSuchBucket"} -> 404
      [] resp.code = "ExpiredToken" -> 400
      [] OTHER -> 500

\* read_manifests_from_db called again after a failed start.
ReaderMayStart_retry == rpc = "start" \/ (rpc = "closed" /\ rfail # "none")

\* The script calls read_manifests_from_db once.
ReaderMayStart == rpc = "start"

\* get_jwt: the one token request of get_s4_client.
R_GetJwt ==
    /\ ReaderMayStart
    /\ ~Running(spc)
    /\ \E resp \in IdpResponses :
         LET r == get_jwt(resp)
         IN /\ rwire' = Append(rwire, Request("token", <<>>, <<>>,
                                            NoToken, FALSE, resp.status, ""))
            /\ rtoken' = r.token
            /\ rpc' = IF r.ok THEN "exchange" ELSE ReaderAfterFailure
            /\ rfail' = IF r.ok THEN rfail ELSE "token"
    /\ UNCHANGED <<swire, now, passwordOK, kcAttrs, store, written, db, spc, stoken,
                   screds, srecords, sfail, rcreds, records, ridx, rout>>
    /\ UNCHANGED unitVars

\* The rest of get_s4_client: the STS exchange and the S3 client.
R_AssumeRole ==
    /\ rpc = "exchange"
    /\ \E resp \in StsResponses(rtoken) :
         /\ rwire' = Append(rwire, Request("assume", <<>>, <<>>, rtoken,
                                         FALSE, HttpStatus(resp), resp.code))
         /\ rcreds' = resp.creds
         /\ rpc' = IF resp.kind = "ok" THEN "query" ELSE ReaderAfterFailure
         /\ rfail' = IF resp.kind = "ok" THEN rfail ELSE "exchange"
    /\ UNCHANGED <<swire, now, passwordOK, kcAttrs, store, written, db, spc, stoken,
                   screds, srecords, sfail, rtoken, records, ridx, rout>>
    /\ UNCHANGED unitVars

\* query_tdf_objects(limit=10), and the return when it found nothing.  A
\* database error is caught inside and gives no rows.
R_Query ==
    /\ rpc = "query"
    /\ \E ok \in BOOLEAN :
         LET rows == IF ok THEN QueryRows(db) ELSE <<>>
         IN /\ rwire' = Append(rwire, Request("query", <<>>, <<>>, NoToken,
                                            FALSE, IF ok THEN 200 ELSE 0, ""))
            /\ records' = rows
            /\ rpc' = IF rows = <<>> THEN "closed" ELSE "loop"
    /\ ridx' = 1
    /\ UNCHANGED <<swire, now, passwordOK, kcAttrs, store, written, db, spc, stoken,
                   screds, srecords, sfail, rtoken, rcreds, rout, rfail>>
    /\ UNCHANGED unitVars

\* One pass of the for loop: fetch_manifest_from_s4 for the record's manifest.
R_Fetch ==
    /\ rpc = "loop"
    /\ ridx <= Len(records)
    /\ LET uri == records[ridx].manifest
           bk == parse_s3_uri(uri)
       IN IF ~Truthy(uri)
          THEN /\ rout' = Append(rout, Outcome(uri, FALSE, "nouri", "", PyNone))
               /\ UNCHANGED <<rwire, rpc>>
          ELSE IF ~FetchValid(uri)
          THEN /\ rout' = Append(rout, Outcome(uri, FALSE, "invalid", "", PyNone))
               /\ UNCHANGED <<rwire, rpc>>
          ELSE \E resp \in S3GetResponses(Stale(rcreds), bk[1].s, bk[2].s, kcAttrs) :
                 LET r == FetchResult(resp)
                 IN /\ rwire' = Append(rwire, Request("get", bk[1].s, bk[2].s,
                                                    NoToken, Stale(rcreds),
                                                    HttpStatus(resp), resp.code))
                    /\ IF r.raised
                       THEN rpc' = "crashed" /\ rout' = rout
                       ELSE /\ rpc' = rpc
                            /\ rout' = Append(rout, Outcome(uri, TRUE, resp.kind,
                                                            resp.code, r.value))
    /\ ridx' = ridx + 1
    /\ UNCHANGED <<swire, now, passwordOK, kcAttrs, store, written, db, spc, stoken,
                   screds, srecords, sfail, rtoken, rcreds, records, rfail>>
    /\ UNCHANGED unitVars

\* The loop is over: read_manifests_from_db logs the count and returns.
R_Return ==
    /\ rpc = "loop"
    /\ ridx > Len(records)
    /\ rpc' = "closed"
    /\ UNCHANGED <<now, passwordOK, kcAttrs, store, written, db, spc, stoken,
                   screds, srecords, sfail, swire, rtoken, rcreds, records, ridx,
                   rout, rfail, rwire>>
    /\ UNCHANGED unitVars

\* ------------------------------------------------------------------- seeder

\* The uuid4 values generate_tdf_records draws record ids from.
Ids == {"a", "b"}

EmptyStore == [k \in {} |-> [body |-> <<>>, meta |-> EmptyMeta]]

\* put_object on the bucket: the object at the key is replaced.
StorePut(st, key, obj) ==
    [k \in DOMAIN st \cup {key} |-> IF k = key THEN obj ELSE st[k]]

NothingWritten == [k \in {} |-> <<>>]

Row(manifest) == [manifest |-> manifest]

\* get_auth_token: the one token request of get_s4_s3_client.  The seeder is
\* run before the reader ("Run the seed script first!"), not after it.
S_GetAuthToken ==
    /\ spc = "start"
    /\ rpc = "start"
    /\ \E resp \in IdpResponses :
         LET r == get_auth_token(resp)
         IN /\ swire' = Append(swire, Request("token", <<>>, <<>>,
                                            NoToken, FALSE, resp.status, ""))
            /\ stoken' = r.token
            /\ spc' = IF r.ok THEN "exchange" ELSE "closed"
            /\ sfail' = IF r.ok THEN sfail ELSE "token"
    /\ UNCHANGED <<rwire, now, passwordOK, kcAttrs, store, written, db, screds, srecords,
                   rpc, rtoken, rcreds, records, ridx, rout, rfail>>
    /\ UNCHANGED unitVars

\* The rest of get_s4_s3_client.  When it raises, generate_tdf_records
\* returns [] and insert_seed_data exits.
S_AssumeRole ==
    /\ spc = "exchange"
    /\ \E resp \in StsResponses(stoken) :
         /\ swire' = Append(swire, Request("assume", <<>>, <<>>, stoken,
                                         FALSE, HttpStatus(resp), resp.code))
         /\ screds' = resp.creds
         /\ spc' = IF resp.kind = "ok" THEN "gen" ELSE "closed"
         /\ sfail' = IF resp.kind = "ok" THEN sfail ELSE "exchange"
    /\ UNCHANGED <<rwire, now, passwordOK, kcAttrs, store, written, db, stoken, srecords,
                   rpc, rtoken, rcreds, records, ridx, rout, rfail>>
    /\ UNCHANGED unitVars

\* upload_to_s4 once put_object has answered: the reference it returns, or
\* the exception of put_object, which it does not catch.
upload_to_s4(resp, filename) ==
    IF resp.kind = "ok"
    THEN [raised |-> FALSE, uri |-> Some(ObjectUri(filename))]
    ELSE [raised |-> TRUE, uri |-> None]

\* The loop dropping the reference upload_to_s4 returned.
ManifestOf_dropuri(resp, manifest_key) == None

\* upload_to_s4 whose failure leaves the reference it would have returned.
ManifestOf_keepuri(resp, manifest_key) == Some(ObjectUri(manifest_key))

\* manifest_uri after the try/except around upload_to_s4: the reference the
\* upload returned, None when it raised.
ManifestOf(resp, manifest_key) ==
    LET r == upload_to_s4(resp, manifest_key)
    IN IF r.raised THEN None ELSE r.uri

\* One pass of the loop of generate_tdf_records: encrypt_data, whose
\* exception is caught nowhere in the loop and ends the script; then
\* upload_to_s4 of the manifest, whose exception leaves manifest_uri None;
\* and the record appended.
S_Generate ==
    /\ spc = "gen"
    /\ Len(srecords) < MaxCount
    /\ \E encrypted \in BOOLEAN :
         IF ~encrypted
         THEN /\ spc' = "crashed"
              /\ UNCHANGED <<swire, store, written, srecords>>
         ELSE /\ spc' = spc
              /\ \E random_id \in Ids, manifest_data \in Docs,
                    resp \in S3PutResponses(Stale(screds)) :
                   LET manifest_key == ManifestKey(random_id)
                       obj == [body |-> Dumps(manifest_data),
                               meta |-> PutMetadata(manifest_attributes)]
                   IN /\ swire' = Append(swire,
                                         Request("put", S4_BUCKET, manifest_key,
                                                 NoToken, Stale(screds),
                                                 HttpStatus(resp), resp.code))
                      /\ IF resp.kind = "ok"
                         THEN /\ store' = StorePut(store, manifest_key, obj)
                              /\ written' = StorePut(written, manifest_key,
                                                     manifest_data)
                         ELSE UNCHANGED <<store, written>>
                      /\ srecords' = Append(srecords,
                                            Row(ManifestOf(resp, manifest_key)))
    /\ UNCHANGED <<rwire, now, passwordOK, kcAttrs, db, stoken, screds, sfail,
                   rpc, rtoken, rcreds, records, ridx, rout, rfail>>
    /\ UNCHANGED unitVars

\* generate_tdf_records returns and insert_seed_data inserts the batch.  With
\* --delete the DELETE is executed with a parameter it has no placeholder
\* for, which raises; any exception rolls the transaction back.
S_Insert ==
    /\ spc = "gen"
    /\ Len(srecords) = MaxCount
    /\ \E should_delete \in BOOLEAN, connected \in BOOLEAN :
         IF srecords = <<>>
         THEN UNCHANGED <<swire, db>>
         ELSE LET committed == connected /\ ~should_delete
              IN /\ swire' = Append(swire, Request("insert", <<>>, <<>>,
                                                 NoToken, FALSE,
                                                 IF committed THEN 200 ELSE 0, ""))
                 /\ db' = IF committed THEN db \o srecords ELSE db
    /\ spc' = "closed"
    /\ UNCHANGED <<rwire, now, passwordOK, kcAttrs, store, written, stoken, screds,
                   srecords, sfail, rpc, rtoken, rcreds, records, ridx, rout, rfail>>
    /\ UNCHANGED unitVars

\* -------------------------------------------------------------------- clock

\* Time passes.  It is observable only through the expiry of credentials a
\* running script still holds, so the clock moves one credential lifetime at
\* a time while such credentials are live.
Tick ==
    /\ \/ spc = "gen" /\ Len(srecords) < MaxCount /\ ~Stale(screds)
       \/ rpc \in {"query", "loop"} /\ ~Stale(rcreds)
    /\ now' = now + DurationSeconds
    /\ UNCHANGED <<passwordOK, kcAttrs, store, written, db, spc, stoken,
                   screds, srecords, sfail, swire, rpc, rtoken, rcreds, records,
                   ridx, rout, rfail, rwire>>
    /\ UNCHANGED unitVars

\* --------------------------------------------------------------------- init

\* Attribute sets of the identities the reader is run as: lacking one of the
\* manifest attributes, holding both.
AttrSets == {{"topsecret"}, {"topsecret", "bbb"}}

\* An object some other writer left in the bucket: no tags, text that is no
\* JSON.
LegacyKey == ManifestKey("z")

LegacyObject == [body |-> <<"x">>, meta |-> EmptyMeta]

\* One more object of another writer: its body is empty.
EmptyKey == ManifestKey("e")

EmptyObject == [body |-> <<>>, meta |-> EmptyMeta]

\* What the bucket and tdf_objects hold before the scripts run: nothing; the
\* legacy object, a row referring to it and a row whose reference has no key;
\* no object, a row referring to the (never written) LegacyKey and a row
\* whose manifest is the empty string; the empty object and a row referring
\* to it.
InitialWorlds ==
    {[store |-> EmptyStore, db |-> <<>>],
     [store |-> StorePut(EmptyStore, EmptyKey, EmptyObject),
      db |-> <<Row(Some(ObjectUri(EmptyKey)))>>],
     [store |-> StorePut(EmptyStore, LegacyKey, LegacyObject),
      db |-> <<Row(Some(S3_SCHEME \o S4_BUCKET)), Row(Some(ObjectUri(LegacyKey)))>>],
     [store |-> EmptyStore,
      db |-> <<Row(Some(<<>>)), Row(Some(ObjectUri(LegacyKey)))>>]}

\* upload_to_s4 has not been called.
NotUploaded == [done |-> FALSE, raised |-> FALSE, uri |-> None]

UnitIdle ==
    /\ u_uri = None
    /\ u_res = [done |-> FALSE, bucket |-> None, key |-> None, sent |-> FALSE]
    /\ m_attrs = <<>>
    /\ m_res = [done |-> FALSE, meta |-> EmptyMeta]
    /\ p_path = <<>>
    /\ p_res = NotUploaded

MainInit(pw, attrs, st, rows) ==
    /\ now = 0
    /\ passwordOK = pw
    /\ kcAttrs = attrs
    /\ store = st
    /\ written = NothingWritten
    /\ db = rows
    /\ swire = <<>>
    /\ rwire = <<>>
    /\ spc = "start"
    /\ stoken = NoToken
    /\ screds = NoCreds
    /\ srecords = <<>>
    /\ sfail = "none"
    /\ rpc = "start"
    /\ rtoken = NoToken
    /\ rcreds = NoCreds
    /\ records = <<>>
    /\ ridx = 1
    /\ rout = <<>>
    /\ rfail = "none"

Init ==
    /\ \E pw \in BOOLEAN, attrs \in AttrSets, w \in InitialWorlds :
         MainInit(pw, attrs, w.store, w.db)
    /\ UnitIdle

Next ==
    \/ S_GetAuthToken
    \/ S_AssumeRole
    \/ S_Generate
    \/ S_Insert
    \/ R_GetJwt
    \/ R_AssumeRole
    \/ R_Query
    \/ R_Fetch
    \/ R_Return
    \/ Tick

Spec == Init /\ [][Next]_vars

\* -------------------------------------------------------------- unit checks

\* Candidate scheme prefixes of a reference: none, the expected one, the
\* expected one cut short, another scheme, the expected one in upper case.
Prefixes ==
    {<<>>, S3_SCHEME, <<"s", "3", ":", "/">>,
     <<"h", "t", "t", "p", ":", "/", "/">>, <<"S", "3", ":", "/", "/">>}

Rests == UNION {[1..n -> {"/", "a", "b"}] : n \in 0..MaxRest}

\* The arguments parse_s3_uri is checked on: None and every prefix + rest.
ParseInputs == {None} \cup {Some(p \o r) : p \in Prefixes, r \in Rests}

\* fetch_manifest_from_s4 up to its get_object call: the parse, and whether
\* the guard lets the request go out.
U_Parse ==
    /\ ~u_res.done
    /\ LET bk == parse_s3_uri(u_uri)
       IN u_res' = [done |-> TRUE, bucket |-> bk[1], key |-> bk[2],
                    sent |-> FetchValid(u_uri)]
    /\ UNCHANGED <<u_uri, m_attrs, m_res, p_path, p_res>>
    /\ UNCHANGED mainVars

InitParse ==
    /\ MainInit(TRUE, {}, EmptyStore, <<>>)
    /\ u_uri \in ParseInputs
    /\ u_res = [done |-> FALSE, bucket |-> None, key |-> None, sent |-> FALSE]
    /\ m_attrs = <<>>
    /\ m_res = [done |-> FALSE, meta |-> EmptyMeta]
    /\ p_path = <<>>
    /\ p_res = NotUploaded

NextParse == U_Parse

SpecParse == InitParse /\ [][NextParse]_vars

\* Attribute tags, and the attribute lists upload_to_s4 is checked on.
Tags == {"topsecret", "bbb", "secret"}

TagLists == UNION {[1..n -> Tags] : n \in 0..MaxTags}

\* upload_to_s4 up to its put_object call: the metadata it builds.
M_Put ==
    /\ ~m_res.done
    /\ m_res' = [done |-> TRUE, meta |-> PutMetadata(m_attrs)]
    /\ UNCHANGED <<u_uri, u_res, m_attrs, p_path, p_res>>
    /\ UNCHANGED mainVars

InitMeta ==
    /\ MainInit(TRUE, {}, EmptyStore, <<>>)
    /\ u_uri = None
    /\ u_res = [done |-> FALSE, bucket |-> None, key |-> None, sent |-> FALSE]
    /\ m_attrs \in TagLists
    /\ m_res = [done |-> FALSE, meta |-> EmptyMeta]
    /\ p_path = <<>>
    /\ p_res = NotUploaded

NextMeta == M_Put

SpecMeta == InitMeta /\ [][NextMeta]_vars

\* The filenames upload_to_s4 is checked on: every non-empty text over "/"
\* and two letters.
Paths == Rests \ {<<>>}

\* upload_to_s4 as a whole: put_object of the payload and metadata under the
\* filename, and the reference returned when it did not raise.
U_Upload ==
    /\ ~p_res.done
    /\ \E data_dict \in Docs, stale \in BOOLEAN :
         \E resp \in S3PutResponses(stale) :
           LET r == upload_to_s4(resp, p_path)
               obj == [body |-> Dumps(data_dict),
                       meta |-> PutMetadata(manifest_attributes)]
           IN /\ swire' = Append(swire, Request("put", S4_BUCKET, p_path, NoToken,
                                              stale, HttpStatus(resp), resp.code))
              /\ IF resp.kind = "ok"
                 THEN /\ store' = StorePut(store, p_path, obj)
                      /\ written' = StorePut(written, p_path, data_dict)
                 ELSE UNCHANGED <<store, written>>
              /\ p_res' = [done |-> TRUE, raised |-> r.raised, uri |-> r.uri]
    /\ UNCHANGED <<now, passwordOK, kcAttrs, db, spc, stoken, screds, srecords,
                   sfail, rpc, rtoken, rcreds, records, ridx, rout, rfail, rwire>>
    /\ UNCHANGED <<u_uri, u_res, m_attrs, m_res, p_path>>

InitUpload ==
    /\ MainInit(TRUE, {}, EmptyStore, <<>>)
    /\ u_uri = None
    /\ u_res = [done |-> FALSE, bucket |-> None, key |-> None, sent |-> FALSE]
    /\ m_attrs = <<>>
    /\ m_res = [done |-> FALSE, meta |-> EmptyMeta]
    /\ p_path \in Paths
    /\ p_res = NotUploaded

NextUpload == U_Upload

SpecUpload == InitUpload /\ [][NextUpload]_vars

\* ------------------------------------------------------------------- claims

Range(q) == {q[i] : i \in 1..Len(q)}

\* s is S3_SCHEME + b + "/" + k for the b that ends before position n of s.
BucketAt(s, n) == SubSeq(s, Len(S3_SCHEME) + 1, n - 1)

KeyAt(s, n) == SubSeq(s, n + 1, Len(s))

\* Position n of s holds the first "/" after the scheme prefix.
SplitsAt(s, n) ==
    /\ StartsWith(s, S3_SCHEME)
    /\ n > Len(S3_SCHEME)
    /\ n <= Len(s)
    /\ s[n] = "/"
    /\ "/" \notin Range(BucketAt(s, n))

\* C5: a string scheme://bucket/key parses to the text before the first "/"
\* after the scheme as bucket and all the text after it as key; a request is
\* dispatched exactly for the strings that have the scheme prefix, a
\* non-empty bucket and a non-empty key, and it carries that bucket and key.
C5_ParseReference ==
    u_res.done =>
        LET s == u_uri.s
            good == {n \in 1..Len(s) :
                        /\ ~u_uri.none
                        /\ SplitsAt(s, n)
                        /\ BucketAt(s, n) # <<>>
                        /\ KeyAt(s, n) # <<>>}
        IN /\ \A n \in 1..Len(s) :
                (~u_uri.none /\ SplitsAt(s, n)) =>
                    /\ u_res.bucket = Some(BucketAt(s, n))
                    /\ u_res.key = Some(KeyAt(s, n))
           /\ u_res.sent <=> good # {}

\* C5 witness: a reference whose key itself contains "/" was parsed and let
\* through.
C5_Witness ==
    /\ u_res.done
    /\ u_res.sent
    /\ "/" \in Range(u_res.key.s)
    /\ u_res.key.s[1] # "/"

\* C10: the metadata of a put has one entry per attribute, entry i under the
\* key with index i carries the i-th attribute (duplicates included), the
\* values sent are the attributes supplied, and no attributes give no
\* metadata.
C10_PutMetadata ==
    m_res.done =>
        LET meta == m_res.meta
            n == Len(m_attrs)
        IN /\ Cardinality(DOMAIN meta) = n
           /\ \A i \in 1..n : meta[<<"tdf-data-attribute-", i - 1>>] = m_attrs[i]
           /\ {meta[k] : k \in DOMAIN meta} = Range(m_attrs)
           /\ (n = 0 => DOMAIN meta = {})

\* C10 witness: metadata was built for a list that repeats an attribute.
C10_Witness ==
    /\ m_res.done
    /\ Len(m_attrs) >= 3
    /\ m_attrs[1] = m_attrs[3]
    /\ m_attrs[1] # m_attrs[2]

RW == rwire

SW == swire

\* The requests of w with the given operation, in order.
RECURSIVE OnlyOp(_, _)
OnlyOp(w, op) ==
    IF w = <<>> THEN <<>>
    ELSE (IF w[1].op = op THEN <<w[1]>> ELSE <<>>) \o OnlyOp(Tail(w), op)

\* A script's session was opened by a token request answered 200 followed by
\* an exchange answered 200, before anything else.
OpenedInOrder(w) ==
    /\ Len(w) >= 2
    /\ w[1].op = "token" /\ w[1].status = 200
    /\ w[2].op = "assume" /\ w[2].status = 200
    /\ \A i \in 3..Len(w) : w[i].op \notin {"token", "assume"}

\* C1: a session is Active only after the token request and then the
\* exchange both succeeded, in that order; when either failed the session is
\* Closed and nothing later was issued: no exchange after a failed token
\* request, no query, no get, no put, no insert.
C1_OpenSession ==
    /\ SessionState(rpc) = "Active" =>
           rfail = "none" /\ OpenedInOrder(RW) /\ rtoken # NoToken /\ rcreds.held
    /\ SessionState(spc) = "Active" =>
           sfail = "none" /\ OpenedInOrder(SW) /\ stoken # NoToken /\ screds.held
    /\ SessionState(rpc) = "Authenticating" => Ops(RW) = <<"token">>
    /\ SessionState(spc) = "Authenticating" => Ops(SW) = <<"token">>
    /\ rfail = "token" => SessionState(rpc) = "Closed" /\ Ops(RW) = <<"token">>
    /\ sfail = "token" => SessionState(spc) = "Closed" /\ Ops(SW) = <<"token">>
    /\ rfail = "exchange" =>
           SessionState(rpc) = "Closed" /\ Ops(RW) = <<"token", "assume">>
    /\ sfail = "exchange" =>
           SessionState(spc) = "Closed" /\ Ops(SW) = <<"token", "assume">>
    /\ \A i \in 1..Len(RW) :
           RW[i].op \in {"query", "get"} => rfail = "none" /\ OpenedInOrder(RW)
    /\ \A i \in 1..Len(SW) :
           SW[i].op \in {"put", "insert"} => sfail = "none" /\ OpenedInOrder(SW)

\* C1 witness: the seeder's session became Active and put an object, and the
\* reader's session ended Closed on a failed exchange.
C1_Witness ==
    /\ sfail = "none"
    /\ Count(SW, "put") > 0
    /\ rfail = "exchange"
    /\ rpc = "closed"

\* The token part of C6 for one script: its requests w, its position, the
\* token it holds and its failure mark.
AcquiredOnce(w, pc, token, fail) ==
    /\ Count(w, "token") <= 1
    /\ pc # "start" =>
           /\ Count(w, "token") = 1
           /\ w[1].op = "token"
           /\ w[1].status = 200 => token \notin {NoToken, ""} /\ fail # "token"
           /\ w[1].status # 200 =>
                  token = NoToken /\ fail = "token" /\ Count(w, "assume") = 0
           /\ ~passwordOK => w[1].status # 200
    /\ pc = "start" => token = NoToken /\ w = <<>>
    /\ \A i \in 1..Len(w) :
           w[i].op = "assume" => w[i].token = token /\ token \notin {NoToken, ""}

\* C6: each call of the acquirer issues exactly one token request and never
\* a second; an answer of 200 gives a non-empty token; any other answer, and
\* so every answer to a wrong password, fails the call, returns no token and
\* passes none on to the credential exchange.
C6_AcquireOnce ==
    /\ AcquiredOnce(RW, rpc, rtoken, rfail)
    /\ AcquiredOnce(SW, spc, stoken, sfail)

\* C6 witness: the password is wrong, the reader's token request was
\* answered 401 and the reader failed at the token step.
C6_Witness ==
    /\ ~passwordOK
    /\ rfail = "token"
    /\ Len(RW) = 1
    /\ RW[1].status = 401

\* The key an outcome's reference names, and whether the bucket holds an
\* object there that carries a tag the reader's identity lacks.
KeyOf(o) == parse_s3_uri(o.uri)[2].s

BucketOf(o) == parse_s3_uri(o.uri)[1].s

LacksATag(o) ==
    /\ o.sent
    /\ BucketOf(o) = S4_BUCKET
    /\ KeyOf(o) \in DOMAIN store
    /\ \E T \in ObjectTags(store[KeyOf(o)].meta) : T \notin kcAttrs

\* C2: a get of an object that carries a tag the reading identity lacks
\* never returns the plaintext and never raises: the denial comes back as
\* the value None, every denial the proxy answered was returned to the loop,
\* and the loop goes on to the remaining records.
C2_DeniedIsAValue ==
    /\ \A i \in 1..Len(rout) :
           LacksATag(rout[i]) =>
               /\ rout[i].kind = "client_error"
               /\ rout[i].value = PyNone
               /\ ~rout[i].shown
    /\ Len(OnlyOp(RW, "get")) > 0 /\ RW[Len(RW)].code = "AccessDenied" =>
           /\ rpc \in {"loop", "closed"}
           /\ rout # <<>>
           /\ rout[Len(rout)].code = "AccessDenied"
    /\ Cardinality({i \in 1..Len(RW) : RW[i].code = "AccessDenied" /\ RW[i].op = "get"})
           = Cardinality({i \in 1..Len(rout) : rout[i].code = "AccessDenied"})

\* C2 witness: a get was denied for a missing tag and the loop then
\* processed a further record.
C2_Witness ==
    \E i \in 1..Len(rout) :
        /\ LacksATag(rout[i])
        /\ rout[i].code = "AccessDenied"
        /\ i < Len(rout)
        /\ rout[i + 1].sent

\* C3: a get of an object written by put, by an identity that holds every
\* tag of the object, and answered by the proxy (no 5xx, no expired
\* credentials), returns the document given to the last put at that key.
C3_RoundTrip ==
    \A i \in 1..Len(rout) :
        LET o == rout[i]
        IN (/\ o.sent
            /\ BucketOf(o) = S4_BUCKET
            /\ KeyOf(o) \in DOMAIN written
            /\ ObjectTags(store[KeyOf(o)].meta) \subseteq kcAttrs
            /\ o.code \notin {"InternalError", "ExpiredToken"})
           => /\ o.kind = "ok"
              /\ o.value = PyDict(written[KeyOf(o)])

\* C3 witness: a key was put twice, and a get then returned the non-empty
\* document of the second put.
C3_Witness ==
    \E i \in 1..Len(rout) :
        /\ rout[i].kind = "ok"
        /\ KeyOf(rout[i]) \in DOMAIN written
        /\ rout[i].value.d # <<>>
        /\ Len(SW) >= 4
        /\ SW[3].op = "put" /\ SW[3].status = 200 /\ SW[3].key = KeyOf(rout[i])
        /\ SW[4].op = "put" /\ SW[4].status = 200 /\ SW[4].key = KeyOf(rout[i])

\* The outcome of the design that an entry of rout stands for.
Class(o) ==
    CASE o.kind = "invalid" -> "InvalidReference"
      [] o.kind = "nouri" -> "NoReference"
      [] o.kind = "ok" -> "Plaintext"
      [] o.code = "AccessDenied" -> "Denied"
      [] o.code \in {"NoSuchKey", "NoSuchBucket"} -> "NotFound"
      [] o.code = "ExpiredToken" -> "CredentialsExpired"
      [] OTHER -> "TransportError"

Failures == {"Denied", "NotFound", "TransportError", "InvalidReference"}

\* C4 as claimed: no two of Denied, NotFound, transport failure and invalid
\* reference are returned to the caller as the same value.
C4_AsClaimed ==
    \A i, j \in 1..Len(rout) :
        (/\ Class(rout[i]) \in Failures
         /\ Class(rout[j]) \in Failures
         /\ Class(rout[i]) # Class(rout[j]))
        => rout[i].value # rout[j].value

\* C4 as amended: get returns the one value None for a denial, a missing
\* object, any other error answer of the store and an invalid reference, and
\* only the error code it logs tells them apart; a request that got no
\* answer is not returned but raised out of the loop.
C4_FailuresAreNone ==
    /\ \A i \in 1..Len(rout) :
           /\ Class(rout[i]) \in Failures \cup {"CredentialsExpired"} =>
                  rout[i].value = PyNone
           /\ rout[i].kind = "client_error" => rout[i].code # ""
    /\ rpc = "crashed" <=>
           (RW # <<>> /\ RW[Len(RW)].op = "get" /\ RW[Len(RW)].status = 0)
    /\ Len(rout) + (IF rpc = "crashed" THEN 1 ELSE 0) = ridx - 1

\* C4 witness: the loop got None both for a denied object and for a
\* reference to an object that was never written.
C4_Witness ==
    \E i, j \in 1..Len(rout) :
        /\ Class(rout[i]) = "Denied"
        /\ Class(rout[j]) = "NotFound"
        /\ rout[i].value = PyNone
        /\ rout[j].value = PyNone

\* The outcomes of rout whose request was dispatched, in order.
RECURSIVE SentOnly(_)
SentOnly(q) ==
    IF q = <<>> THEN <<>>
    ELSE (IF q[1].sent THEN <<q[1]>> ELSE <<>>) \o SentOnly(Tail(q))

\* C7 as claimed: no get and no put is dispatched with credentials whose
\* expiry has been reached.
C7_AsClaimed ==
    /\ \A i \in 1..Len(rwire) : rwire[i].op = "get" => ~rwire[i].stale
    /\ \A i \in 1..Len(swire) : swire[i].op = "put" => ~swire[i].stale

\* C7 as amended: the expiry of the credentials is not checked; a get or put
\* made after it is dispatched with the expired credentials, is not answered
\* 200, and ends like any failed request: the get returns None, the put
\* leaves the record's manifest null; each record causes at most one
\* request (no retry).
C7_StaleUseFails ==
    LET gets == OnlyOp(RW, "get")
        puts == OnlyOp(SW, "put")
        outs == SentOnly(rout)
    IN /\ \A i \in 1..Len(gets) : gets[i].stale => gets[i].status # 200
       /\ \A i \in 1..Len(puts) : puts[i].stale => puts[i].status # 200
       /\ Len(puts) = Len(srecords)
       /\ \A k \in 1..Len(puts) : puts[k].stale => srecords[k].manifest = None
       /\ Len(gets) = Len(outs) + (IF rpc = "crashed" THEN 1 ELSE 0)
       /\ \A k \in 1..Len(outs) : gets[k].stale => outs[k].value = PyNone

\* C7 witness: a put and a get were each dispatched with credentials past
\* their expiry.
C7_Witness ==
    /\ \E i \in 1..Len(SW) : SW[i].op = "put" /\ SW[i].stale
    /\ \E i \in 1..Len(RW) : RW[i].op = "get" /\ RW[i].stale

C11_PutReference ==
    p_res.done =>
        LET put == swire[Len(swire)]
        IN /\ p_res.raised <=> put.status # 200
           /\ ~p_res.raised =>
                  /\ p_res.uri = Some(S3_SCHEME \o S4_BUCKET \o <<"/">> \o p_path)
                  /\ parse_s3_uri(p_res.uri) = <<Some(S4_BUCKET), Some(p_path)>>
                  /\ FetchValid(p_res.uri)
                  /\ DOMAIN store = {p_path}
           /\ p_res.raised => p_res.uri = None /\ DOMAIN store = {}

\* C11 witness: a put under a path with a "/" inside it and one at its end
\* succeeded and returned a reference.
C11_Witness ==
    /\ p_res.done
    /\ ~p_res.raised
    /\ ~p_res.uri.none
    /\ Len(p_path) >= 3
    /\ p_path[1] # "/"
    /\ p_path[2] = "/"
    /\ p_path[Len(p_path)] = "/"

\* The text of the object an outcome's reference names.
BodyOf(o) == store[KeyOf(o)].body

\* Plaintext(body) of the design: the parsed value when the body is JSON,
\* else the text itself.
PlaintextOf(body) == IF Loads(body).ok THEN Loads(body).v ELSE PyStr(body)

\* C12 as claimed: every get answered 200 comes back as the plaintext of the
\* body (the parsed value when the body is JSON, the raw text when it is
\* not), whatever the body, the empty one included; it is not the value a
\* failed get returns, and the caller does not report it as "could not
\* retrieve (access denied or not found)".
C12_AsClaimed ==
    \A i \in 1..Len(rout) :
        rout[i].kind = "ok" =>
            /\ rout[i].value = PlaintextOf(BodyOf(rout[i]))
            /\ rout[i].value # PyNone
            /\ rout[i].shown

\* C12, the failing input: a get of the object with the empty body was
\* answered 200, returned the empty text, and the caller took the branch
\* that reports a manifest that could not be retrieved.
C12_EmptyBodyReported ==
    \E i \in 1..Len(rout) :
        /\ rout[i].kind = "ok"
        /\ KeyOf(rout[i]) = EmptyKey
        /\ rout[i].value = PyStr(<<>>)
        /\ ~rout[i].shown

\* The state part of C13.
C13_Records ==
    LET puts == OnlyOp(SW, "put")
    IN /\ Len(puts) = Len(srecords)
       /\ \A k \in 1..Len(puts) :
              /\ srecords[k].manifest = None <=> puts[k].status # 200
              /\ puts[k].status = 200 =>
                     srecords[k].manifest =
                         Some(S3_SCHEME \o puts[k].bucket \o <<"/">> \o puts[k].key)
       /\ Count(SW, "insert") > 0 => Len(srecords) = MaxCount
       /\ \A i \in 1..Len(records) : ~records[i].manifest.none
       /\ \A i \in 1..Len(rout) : rout[i].sent => ~rout[i].uri.none
       /\ Len(OnlyOp(RW, "get")) =
              Len(SentOnly(rout)) + (IF rpc = "crashed" THEN 1 ELSE 0)

\* The step part of C13: the seeder has just dispatched a put.
C13_PutStep ==
    /\ Len(swire') = Len(swire) + 1
    /\ swire'[Len(swire')].op = "put"

\* C13: every put of the generation loop, answered 200 or failed, is followed
\* by one more record and leaves the loop running, so the records handed to
\* the insert are exactly count; record k's manifest is null exactly when put
\* k failed and is otherwise s3://bucket/key of put k; the reader's query
\* returns no record whose manifest is null and no get is dispatched for one.
C13_UploadFailureKeepsRecord ==
    /\ []C13_Records
    /\ [][C13_PutStep =>
              /\ spc' = "gen"
              /\ Len(srecords') = Len(srecords) + 1]_vars

\* C13 witness: the seeder's first upload failed and its last succeeded, all
\* count records were inserted, and the reader, whose query met the record
\* with the null manifest, finished its loop.
C13_Witness ==
    /\ Len(srecords) = MaxCount
    /\ srecords[1].manifest = None
    /\ srecords[MaxCount].manifest # None
    /\ \E i \in 1..Len(db) : db[i].manifest = None
    /\ Len(records) > 0
    /\ Count(RW, "get") = Len(records)
    /\ rpc = "closed"

====
